---- MODULE Spec2Model ----
(***************************************************************************)
(* Typed connections of package netutils: TypedConnection[T] (Read, Write, *)
(* Close), TCPTypedConnection[T] (ReadFrom, DialTCP) and                    *)
(* TCPSocketListener[T] (Accept, Close), over a transport of connected      *)
(* handle pairs.  Read's chunked loop advances one underlying conn.Read per *)
(* step; every other operation is one step.                                 *)
(***************************************************************************)
EXTENDS Integers, Sequences, FiniteSets, TLC

VARIABLES listener, backlog, acc, accRet, conn, tc, inbox, rd, dest, ret, calls

vars == <<listener, backlog, acc, accRet, conn, tc, inbox, rd, dest, ret, calls>>

(***************************************************************************)
(* Bounds of the exploration.                                              *)
(***************************************************************************)
\* longest payload value a caller writes
MaxLen == 1
\* API calls started in one behaviour
MaxCalls == 5
\* successful underlying reads explored inside one Read call
MaxChunks == 3
\* largest byte count explored for a transfer that stops short
MaxPartial == 1

(***************************************************************************)
(* Program constants.                                                      *)
(***************************************************************************)
DefaultBufferSize == 4096
DefaultChunkSize == 256

Min(a, b) == IF a <= b THEN a ELSE b

(***************************************************************************)
(* Byte slices.  A []byte is held as the sequence of its runs: <<b, n>>    *)
(* stands for n >= 1 consecutive bytes b, and neighbouring runs hold       *)
(* different bytes, so equal slices are equal sequences of runs.           *)
(***************************************************************************)
Empty == <<>>

Run(b, n) == IF n = 0 THEN Empty ELSE << <<b, n>> >>

\* len(s)
Size(s) ==
    LET upto[i \in 0..Len(s)] == IF i = 0 THEN 0 ELSE upto[i - 1] + s[i][2]
    IN  upto[Len(s)]

\* append(a, b...)
Cat(a, b) ==
    IF a = Empty THEN b
    ELSE IF b = Empty THEN a
    ELSE IF a[Len(a)][1] = b[1][1]
         THEN SubSeq(a, 1, Len(a) - 1)
              \o << <<b[1][1], a[Len(a)][2] + b[1][2]>> >>
              \o Tail(b)
         ELSE a \o b

\* s[:k]
RECURSIVE Take(_, _)
Take(s, k) ==
    IF k = 0 \/ s = Empty THEN Empty
    ELSE IF s[1][2] >= k THEN Run(s[1][1], k)
    ELSE <<s[1]>> \o Take(Tail(s), k - s[1][2])

\* s[k:]
RECURSIVE Drop(_, _)
Drop(s, k) ==
    IF k = 0 \/ s = Empty THEN s
    ELSE IF s[1][2] > k THEN << <<s[1][1], s[1][2] - k>> >> \o Tail(s)
    ELSE Drop(Tail(s), k - s[1][2])

\* s[0]
First(s) == s[1][1]

\* the slice holding the bytes of the sequence q
RECURSIVE Bytes(_)
Bytes(q) == IF q = <<>> THEN Empty ELSE Cat(Run(Head(q), 1), Bytes(Tail(q)))

(***************************************************************************)
(* Errors are chains of messages; the nil error is the empty chain.        *)
(* errors.Join keeps the non-nil errors it is given, in order.             *)
(***************************************************************************)
Nil == <<>>
EOF == <<"EOF">>
ErrClosed == <<"use of closed network connection">>
ErrTransport == <<"i/o timeout">>
ErrMalformed == <<"malformed payload">>
ErrUnencodable == <<"unencodable value">>

Join(a, b) == a \o b

(***************************************************************************)
(* The payload type T and its Convertable capability.  A value is a short  *)
(* sequence of symbols; Marshal writes a length-prefixed record and fails  *)
(* on a value holding the unencodable symbol; Unmarshal accepts exactly    *)
(* the well-formed records.                                                *)
(***************************************************************************)
Symbol == 1
Unencodable == 9

Ones(n) == [i \in 1..n |-> Symbol]

\* make([]byte, n): n zero bytes
Zeros(n) == Run(0, n)

WellFormed == {Ones(n) : n \in 0..MaxLen}
BadValue == <<Unencodable>>
Values == WellFormed \cup {BadValue}

ZeroValue == <<>>

Marshal(v) ==
    IF \E i \in 1..Len(v) : v[i] = Unencodable
    THEN [data |-> Empty, err |-> ErrUnencodable]
    ELSE [data |-> Bytes(<<Len(v)>> \o v), err |-> Nil]

Unmarshal(data) ==
    IF /\ Size(data) >= 1
       /\ First(data) = Size(data) - 1
       /\ Drop(data, 1) = Run(Symbol, Size(data) - 1)
    THEN [val |-> Ones(Size(data) - 1), err |-> Nil]
    ELSE [val |-> ZeroValue, err |-> ErrMalformed]

(***************************************************************************)
(* ReadOptions.  The variadic opts parameter is the sequence of the        *)
(* options the caller supplies: none (opts == nil, the empty sequence      *)
(* here), one, or more.                                                    *)
(***************************************************************************)
ReadOptions(b, c) == [BufferSize |-> b, ChunkSize |-> c]

\* faulty variant of defaultReadOptions: the two sizes exchanged
defaultReadOptionsSwapped == ReadOptions(DefaultChunkSize, DefaultBufferSize)

defaultReadOptions == ReadOptions(DefaultBufferSize, DefaultChunkSize)

NoOpts == <<>>
SmallOpts == ReadOptions(1, 1)
ExplicitDefaults == ReadOptions(DefaultBufferSize, DefaultChunkSize)
OptsArgs == { NoOpts,
              <<ExplicitDefaults>>,
              <<SmallOpts>>,
              <<SmallOpts, ExplicitDefaults>> }

ResolveOpts(opts) == IF opts = NoOpts THEN defaultReadOptions ELSE opts[1]

(***************************************************************************)
(* Handles.  c1-s1 and c2-s2 are TCP connections made by DialTCP and the   *)
(* listener; u1-u2 is a connected pair of another net.Conn implementation  *)
(* that the caller wraps directly.                                         *)
(***************************************************************************)
Clients == {"c1", "c2"}
Servers == {"s1", "s2"}
Others == {"u1", "u2"}
Handles == Clients \cup Servers \cup Others

\* The exploration reads on one side of each connected pair: the accepting
\* side and u1 read, every TCP end and u2 write.  Either side closes.
Writers == Clients \cup Servers \cup {"u2"}
Readers == Servers \cup {"u1"}

Peer(h) ==
    CASE h = "c1" -> "s1" [] h = "s1" -> "c1"
      [] h = "c2" -> "s2" [] h = "s2" -> "c2"
      [] h = "u1" -> "u2" [] h = "u2" -> "u1"

Impl(h) == IF h \in Others THEN "other" ELSE "TCPConn"

ConnectionTypeTCP == "tcp"
ConnectionTypeUDP == "udp"

NoWrapper == [wrapped |-> FALSE, connectionType |-> ConnectionTypeTCP, tcpTyped |-> FALSE]

NewTypedConnection(connectionType) ==
    [wrapped |-> TRUE, connectionType |-> connectionType, tcpTyped |-> FALSE]

NewTCPTypedConnection ==
    [wrapped |-> TRUE, connectionType |-> ConnectionTypeTCP, tcpTyped |-> TRUE]

InitDest == <<Symbol>>

RdIdle == [pc |-> "idle", dstNil |-> FALSE,
           readOpts |-> defaultReadOptions, bufCap |-> 0, chunkLen |-> 0,
           buffer |-> Empty, consumed |-> Empty, reads |-> 0,
           destBefore |-> InitDest]

RetNone == [op |-> "none", site |-> "none", n |-> 0, err |-> Nil,
            dstNil |-> FALSE, arg |-> ZeroValue,
            destBefore |-> InitDest, buffer |-> Empty, consumed |-> Empty,
            sent |-> Empty, reads |-> 0, cause |-> Nil]

AccNone == [op |-> "none", conn |-> "nil", err |-> Nil, closed |-> FALSE]

Init ==
    /\ listener = "open"
    /\ backlog = <<>>
    /\ acc = "idle"
    /\ accRet = AccNone
    /\ conn = [h \in Handles |-> IF h \in Others THEN "open" ELSE "none"]
    /\ tc = [h \in Handles |-> NoWrapper]
    /\ inbox = [h \in Handles |-> Empty]
    /\ rd = [h \in Handles |-> RdIdle]
    /\ dest = [h \in Handles |-> InitDest]
    /\ ret = [h \in Handles |-> RetNone]
    /\ calls = 0

(***************************************************************************)
(* The transport under a handle: what conn.Read, conn.Write, the bulk      *)
(* conn.ReadFrom and conn.Close can report.                                *)
(***************************************************************************)
PeerClosed(h) == conn[Peer(h)] = "closed"

\* byte counts one underlying read may deliver into a chunk of chunkLen bytes
ReadAmounts(h, chunkLen) ==
    LET most == Min(chunkLen, Size(inbox[h]))
    IN  {k \in 1..most : k <= MaxPartial \/ k = most}

\* tc.conn.Read(chunk): a closed handle fails; an open one delivers waiting
\* bytes, reports io.EOF once the peer has closed and nothing waits, or
\* fails (deadline, reset).  A *net.TCPConn reports 0 bytes with an error;
\* another net.Conn may deliver bytes together with the error.
ConnRead(h, chunkLen, reads) ==
    IF conn[h] = "closed"
    THEN {[amount |-> 0, err |-> ErrClosed]}
    ELSE {[amount |-> k, err |-> Nil] :
             k \in IF reads < MaxChunks THEN ReadAmounts(h, chunkLen) ELSE {}}
         \cup (IF inbox[h] = Empty /\ PeerClosed(h)
               THEN {[amount |-> 0, err |-> EOF]} ELSE {})
         \cup {[amount |-> 0, err |-> ErrTransport]}
         \cup (IF Impl(h) = "other"
               THEN {[amount |-> k, err |-> ErrTransport] : k \in ReadAmounts(h, chunkLen)}
                    \cup (IF PeerClosed(h) /\ Size(inbox[h]) \in 1..chunkLen
                          THEN {[amount |-> Size(inbox[h]), err |-> EOF]} ELSE {})
               ELSE {})

\* tc.conn.Write(buffer)
ConnWrite(h, data) ==
    IF conn[h] = "closed"
    THEN {[n |-> 0, err |-> ErrClosed]}
    ELSE {[n |-> Size(data), err |-> Nil]}
         \cup {[n |-> k, err |-> ErrTransport] : k \in 0..Min(Size(data) - 1, MaxPartial)}

\* conn.ReadFrom(reader) of *net.TCPConn (io.ReaderFrom): copies what the
\* reader holds onto the connection and reports the bytes copied
ConnReadFrom(h, reader) ==
    IF conn[h] = "closed"
    THEN {[n |-> 0, err |-> ErrClosed]}
    ELSE {[n |-> Size(reader), err |-> Nil]}
         \cup {[n |-> k, err |-> ErrTransport] : k \in 0..Min(Size(reader) - 1, MaxPartial)}

\* faulty variant of Deliver: the bytes reach every other open handle
DeliverBroadcast(h, bytes) ==
    [g \in Handles |->
       IF g # h /\ conn[g] = "open" THEN Cat(inbox[g], bytes) ELSE inbox[g]]

\* bytes put on the wire by h reach the peer's receive queue while it is open
Deliver(h, bytes) ==
    IF PeerClosed(h) THEN inbox ELSE [inbox EXCEPT ![Peer(h)] = Cat(@, bytes)]

\* faulty variant of CloseHandle: the peer's handle is closed as well
CloseHandleBoth(h) == [conn EXCEPT ![h] = "closed", ![Peer(h)] = "closed"]

\* conn.Close()
CloseHandle(h) == [conn EXCEPT ![h] = "closed"]

Returned(h, r) == ret' = [ret EXCEPT ![h] = r]

CanCall == calls < MaxCalls
Called == calls' = calls + 1

(***************************************************************************)
(* TypedConnection.Read                                                    *)
(***************************************************************************)
ErrNilData == <<"data pointer was nil">>
ErrUnmarshalCtx == <<"unmarshal of data returned an error">>

\* faulty variant of ReadRejects: the nil test left out
ReadRejectsNever(dstNil) == FALSE

\* data == nil
ReadRejects(dstNil) == dstNil

\* the locals of Read once the options are resolved
ReadLocals(h, opts) ==
    LET readOpts == ResolveOpts(opts)
    IN  [pc |-> "loop", dstNil |-> FALSE, readOpts |-> readOpts,
         bufCap |-> readOpts.BufferSize, chunkLen |-> readOpts.ChunkSize,
         buffer |-> Empty, consumed |-> Empty, reads |-> 0,
         destBefore |-> dest[h]]

\* faulty variant of IsEOF: every error taken for the end of the stream
IsEOFAlways(err) == TRUE

\* faulty variant of IsEOF: the end of the stream taken for a failure
IsEOFNever(err) == FALSE

\* errors.Is(err, io.EOF)
IsEOF(err) == err = EOF

\* return amount, err on end-of-stream
EofCount(amount, buffer) == amount

\* faulty variant of ReadEof: the buffer decoded into *data all the same
ReadEofStores(amount, err, buffer, old) ==
    [site |-> "eof", n |-> EofCount(amount, buffer), err |-> err,
     dest |-> Unmarshal(buffer).val]

\* the return on end-of-stream: no Unmarshal, *data not assigned
ReadEof(amount, err, buffer, old) ==
    [site |-> "eof", n |-> EofCount(amount, buffer), err |-> err, dest |-> old]

\* buffer = append(buffer, chunk[:amount]...)
AppendChunk(buffer, chunk, amount) == Cat(buffer, Take(chunk, amount))

\* faulty variant of ReadConvert: *data assigned before the error test
ReadConvertClobbers(buffer, old) ==
    LET u == Unmarshal(buffer)
    IN  IF u.err # Nil
        THEN [site |-> "unmarshal", n |-> 0, err |-> Join(ErrUnmarshalCtx, u.err),
              dest |-> u.val]
        ELSE [site |-> "ok", n |-> Size(buffer), err |-> Nil, dest |-> u.val]

\* Unmarshal of the accumulated buffer, and what Read then returns
ReadConvert(buffer, old) ==
    LET u == Unmarshal(buffer)
    IN  IF u.err # Nil
        THEN [site |-> "unmarshal", n |-> 0, err |-> Join(ErrUnmarshalCtx, u.err),
              dest |-> old]
        ELSE [site |-> "ok", n |-> Size(buffer), err |-> Nil, dest |-> u.val]

ReadCall(h, dstNil, opts) ==
    /\ CanCall
    /\ tc[h].wrapped
    /\ rd[h].pc = "idle"
    /\ Called
    /\ IF ReadRejects(dstNil)
       THEN /\ Returned(h, [RetNone EXCEPT !.op = "Read", !.site = "nil",
                              !.n = 0, !.err = ErrNilData, !.dstNil = dstNil,
                              !.destBefore = dest[h]])
            /\ UNCHANGED rd
       ELSE /\ rd' = [rd EXCEPT ![h] = [ReadLocals(h, opts) EXCEPT !.dstNil = dstNil]]
            /\ UNCHANGED ret
    /\ UNCHANGED <<listener, backlog, acc, accRet, conn, tc, inbox, dest>>

ReadStep(h) ==
    /\ rd[h].pc = "loop"
    /\ \E r \in ConnRead(h, rd[h].chunkLen, rd[h].reads) :
         LET chunk == Take(inbox[h], r.amount)
             seen == Cat(rd[h].consumed, chunk)
             base == [RetNone EXCEPT !.op = "Read", !.dstNil = rd[h].dstNil,
                        !.destBefore = rd[h].destBefore,
                        !.buffer = rd[h].buffer, !.consumed = seen,
                        !.reads = rd[h].reads + 1, !.cause = r.err]
         IN  /\ inbox' = [inbox EXCEPT ![h] = Drop(@, r.amount)]
             /\ IF r.err # Nil
                THEN IF IsEOF(r.err)
                     THEN LET e == ReadEof(r.amount, r.err, rd[h].buffer, dest[h])
                          IN  /\ Returned(h, [base EXCEPT !.site = e.site,
                                                !.n = e.n, !.err = e.err])
                              /\ rd' = [rd EXCEPT ![h] = RdIdle]
                              /\ dest' = [dest EXCEPT ![h] = e.dest]
                     ELSE LET c == ReadConvert(rd[h].buffer, dest[h])
                          IN  /\ Returned(h, [base EXCEPT !.site = c.site,
                                                !.n = c.n, !.err = c.err])
                              /\ rd' = [rd EXCEPT ![h] = RdIdle]
                              /\ dest' = [dest EXCEPT ![h] = c.dest]
                ELSE /\ rd' = [rd EXCEPT ![h].buffer = AppendChunk(@, chunk, r.amount),
                                         ![h].consumed = seen,
                                         ![h].reads = @ + 1]
                     /\ UNCHANGED <<ret, dest>>
    /\ UNCHANGED <<listener, backlog, acc, accRet, conn, tc, calls>>

(***************************************************************************)
(* TypedConnection.Write                                                   *)
(***************************************************************************)
ErrMarshalCtx == <<"could not marshal data to write">>

\* faulty variant of WritePlan: the error of Marshal ignored
WritePlanIgnoresError(v) ==
    [send |-> TRUE, data |-> Marshal(v).data, n |-> 0, err |-> Nil]

\* faulty variant of WritePlan: the marshaled bytes handed over twice
WritePlanSendsTwice(v) ==
    LET m == Marshal(v)
    IN  IF m.err # Nil
        THEN [send |-> FALSE, data |-> Empty, n |-> 0, err |-> Join(ErrMarshalCtx, m.err)]
        ELSE [send |-> TRUE, data |-> Cat(m.data, m.data), n |-> 0, err |-> Nil]

\* data.Marshal() and the early return on its failure
WritePlan(v) ==
    LET m == Marshal(v)
    IN  IF m.err # Nil
        THEN [send |-> FALSE, data |-> Empty, n |-> 0, err |-> Join(ErrMarshalCtx, m.err)]
        ELSE [send |-> TRUE, data |-> m.data, n |-> 0, err |-> Nil]

Write(h, v) ==
    /\ CanCall
    /\ tc[h].wrapped
    /\ Called
    /\ LET p == WritePlan(v)
           base == [RetNone EXCEPT !.op = "Write", !.arg = v, !.destBefore = dest[h]]
       IN  IF ~p.send
           THEN /\ Returned(h, [base EXCEPT !.site = "marshal", !.n = p.n, !.err = p.err])
                /\ UNCHANGED inbox
           ELSE \E w \in ConnWrite(h, p.data) :
                  /\ inbox' = Deliver(h, Take(p.data, w.n))
                  /\ Returned(h, [base EXCEPT !.site = "write", !.n = w.n, !.err = w.err,
                                    !.sent = Take(p.data, w.n), !.cause = w.err])
    /\ UNCHANGED <<listener, backlog, acc, accRet, conn, tc, rd, dest>>

(***************************************************************************)
(* TypedConnection.Close: the error conn.Close() returns is not kept.      *)
(***************************************************************************)
Close(h) ==
    /\ CanCall
    /\ tc[h].wrapped
    /\ Called
    /\ conn' = CloseHandle(h)
    /\ UNCHANGED <<listener, backlog, acc, accRet, tc, inbox, rd, dest, ret>>

(***************************************************************************)
(* TypedConnection.ConnectionType and the deadline setters.                *)
(***************************************************************************)
\* return tc.connectionType
ConnectionType(h) == tc[h].connectionType

\* faulty variant of SetDeadline: the wrapper's kind is reset by the call
SetDeadlineResetsKind(h) ==
    /\ CanCall
    /\ tc[h].wrapped
    /\ Called
    /\ tc' = [tc EXCEPT ![h].connectionType = ConnectionTypeUDP]
    /\ UNCHANGED <<listener, backlog, acc, accRet, conn, inbox, rd, dest, ret>>

\* SetDeadline, SetReadDeadline, SetWriteDeadline: the time is handed to
\* the conn and nothing of the wrapper changes; an expired deadline is a
\* timeout the transport reports to a later read or write.
SetDeadline(h) ==
    /\ CanCall
    /\ tc[h].wrapped
    /\ Called
    /\ UNCHANGED <<listener, backlog, acc, accRet, conn, tc, inbox, rd, dest, ret>>

(***************************************************************************)
(* TCPTypedConnection.ReadFrom                                             *)
(***************************************************************************)
ErrInvalidConn == <<"conn is an invalid connection type for this method">>
ErrReceiveCtx == <<"could not receive incoming buffer">>
ErrUnmarshalInto == <<"could not unmarshal incoming buffer into *T">>

\* faulty variant of IsTCPConn: every handle taken for a *net.TCPConn
IsTCPConnAny(h) == TRUE

\* switch conn := ttc.conn.(type) { case *net.TCPConn:
IsTCPConn(h) == Impl(h) = "TCPConn"

\* faulty variant of ReadFromConvert: *data assigned before the error test
ReadFromConvertClobbers(resizedBuffer, amountRead, old) ==
    LET u == Unmarshal(resizedBuffer)
    IN  [site |-> IF u.err # Nil THEN "unmarshal" ELSE "ok", n |-> amountRead,
         err |-> IF u.err # Nil THEN ErrUnmarshalInto ELSE Nil, dest |-> u.val]

\* Unmarshal of buffer[:amountRead], and what ReadFrom then returns
ReadFromConvert(resizedBuffer, amountRead, old) ==
    LET u == Unmarshal(resizedBuffer)
    IN  IF u.err # Nil
        THEN [site |-> "unmarshal", n |-> amountRead, err |-> ErrUnmarshalInto,
              dest |-> old]
        ELSE [site |-> "ok", n |-> amountRead, err |-> Nil, dest |-> u.val]

ReadFrom(h, opts) ==
    /\ CanCall
    /\ tc[h].wrapped
    /\ tc[h].tcpTyped
    /\ rd[h].pc = "idle"
    /\ Called
    /\ LET readOpts == ResolveOpts(opts)
           base == [RetNone EXCEPT !.op = "ReadFrom", !.destBefore = dest[h]]
       IN  IF ~IsTCPConn(h)
           THEN /\ Returned(h, [base EXCEPT !.site = "invalid", !.n = 0,
                                  !.err = ErrInvalidConn])
                /\ UNCHANGED <<inbox, dest>>
           ELSE LET buffer == Zeros(readOpts.BufferSize)
                IN  \E x \in ConnReadFrom(h, buffer) :
                      /\ inbox' = Deliver(h, Take(buffer, x.n))
                      /\ IF x.err # Nil
                         THEN /\ Returned(h, [base EXCEPT !.site = "receive", !.n = x.n,
                                                !.err = Join(ErrReceiveCtx, x.err),
                                                !.sent = Take(buffer, x.n)])
                              /\ UNCHANGED dest
                         ELSE LET c == ReadFromConvert(Take(buffer, x.n), x.n, dest[h])
                              IN  /\ Returned(h, [base EXCEPT !.site = c.site, !.n = c.n,
                                                    !.err = c.err,
                                                    !.buffer = Take(buffer, x.n),
                                                    !.sent = Take(buffer, x.n)])
                                  /\ dest' = [dest EXCEPT ![h] = c.dest]
    /\ UNCHANGED <<listener, backlog, acc, accRet, conn, tc, rd>>

(***************************************************************************)
(* DialTCP, wrapping a handle, and TCPSocketListener                       *)
(***************************************************************************)
\* net.Dial succeeds against an open listener and queues the server end; a
\* failed dial returns (nil, err) and changes nothing.  The clients dial in
\* the order of their names.
DialTCP(c) ==
    /\ CanCall
    /\ conn[c] = "none"
    /\ c = "c1" \/ conn["c1"] # "none"
    /\ listener = "open"
    /\ Called
    /\ conn' = [conn EXCEPT ![c] = "open", ![Peer(c)] = "queued"]
    /\ backlog' = Append(backlog, Peer(c))
    /\ tc' = [tc EXCEPT ![c] = NewTCPTypedConnection]
    /\ UNCHANGED <<listener, acc, accRet, inbox, rd, dest, ret>>

\* the reading end is wrapped either way; the writing end as a plain
\* TypedConnection
Wrappers(h) ==
    IF h \in Readers
    THEN {NewTCPTypedConnection, NewTypedConnection(ConnectionTypeUDP)}
    ELSE {NewTypedConnection(ConnectionTypeUDP)}

WrapConn(h, w) ==
    /\ CanCall
    /\ h \in Others
    /\ ~tc[h].wrapped
    /\ Called
    /\ tc' = [tc EXCEPT ![h] = w]
    /\ UNCHANGED <<listener, backlog, acc, accRet, conn, inbox, rd, dest, ret>>

\* tsl.listener.Accept(): fails on a closed listener, hands over the oldest
\* queued connection, and blocks otherwise
ListenerAccept ==
    IF listener = "closed"
    THEN {[conn |-> "nil", err |-> ErrClosed, closed |-> TRUE]}
    ELSE IF backlog # <<>>
         THEN {[conn |-> Head(backlog), err |-> Nil, closed |-> FALSE]}
         ELSE {}

\* faulty variant of AcceptResult: the listener's error dropped
AcceptResultDropsError(a) ==
    [op |-> "Accept", conn |-> a.conn, err |-> Nil, closed |-> a.closed]

\* what Accept returns for the listener's result
AcceptResult(a) ==
    IF a.err # Nil
    THEN [op |-> "Accept", conn |-> "nil", err |-> a.err, closed |-> a.closed]
    ELSE [op |-> "Accept", conn |-> a.conn, err |-> Nil, closed |-> a.closed]

AcceptCall ==
    /\ CanCall
    /\ acc = "idle"
    /\ Called
    /\ acc' = "blocked"
    /\ UNCHANGED <<listener, backlog, accRet, conn, tc, inbox, rd, dest, ret>>

AcceptReturn ==
    /\ acc = "blocked"
    /\ \E a \in ListenerAccept :
         /\ accRet' = AcceptResult(a)
         /\ acc' = "idle"
         /\ IF a.err # Nil
            THEN UNCHANGED <<backlog, conn, tc>>
            ELSE /\ backlog' = Tail(backlog)
                 /\ conn' = [conn EXCEPT ![a.conn] = "open"]
                 /\ tc' = [tc EXCEPT ![a.conn] = NewTCPTypedConnection]
    /\ UNCHANGED <<listener, inbox, rd, dest, ret, calls>>

\* tsl.listener.Close()
ListenerClose ==
    /\ CanCall
    /\ Called
    /\ listener' = "closed"
    /\ UNCHANGED <<backlog, acc, accRet, conn, tc, inbox, rd, dest, ret>>

Next ==
    \/ \E h \in Readers, dstNil \in BOOLEAN, opts \in OptsArgs : ReadCall(h, dstNil, opts)
    \/ \E h \in Readers : ReadStep(h)
    \/ \E h \in Writers, v \in Values : Write(h, v)
    \/ \E h \in Handles : Close(h)
    \/ \E h \in Handles : SetDeadline(h)
    \/ \E h \in Readers, opts \in OptsArgs : ReadFrom(h, opts)
    \/ \E c \in Clients : DialTCP(c)
    \/ \E h \in Others : \E w \in Wrappers(h) : WrapConn(h, w)
    \/ AcceptCall
    \/ AcceptReturn
    \/ ListenerClose

Spec == Init /\ [][Next]_vars

(***************************************************************************)
(* Properties                                                              *)
(***************************************************************************)

C2_EofCountIsTotal ==
    \A h \in Handles :
      (ret[h].op = "Read" /\ ret[h].err = EOF)
        => ret[h].n = Size(ret[h].consumed)

\* C3: a Read with a nil destination never enters the read loop; it returns
\* (0, "data pointer was nil") having made no underlying read, consumed no
\* byte, sent nothing and left the destination variable alone.
C3_NilDestination ==
    \A h \in Handles :
      /\ rd[h].pc = "loop" => ~rd[h].dstNil
      /\ (ret[h].op = "Read" /\ ret[h].dstNil)
           => ( /\ ret[h].n = 0
                /\ ret[h].err = ErrNilData
                /\ ret[h].reads = 0
                /\ ret[h].consumed = Empty
                /\ ret[h].sent = Empty
                /\ dest[h] = ret[h].destBefore )

\* C3 witness: a nil-destination Read returned on a connection that had
\* bytes waiting, and they are still waiting.
C3_Witness ==
    \E h \in Handles :
      /\ ret[h].op = "Read" /\ ret[h].dstNil
      /\ inbox[h] # Empty

\* C4: when Read unmarshals its accumulated buffer and the buffer is
\* malformed, Read returns (0, "unmarshal of data returned an error" joined
\* with the cause) and the destination keeps its value from before the call.
C4_UnmarshalFailure ==
    \A h \in Handles :
      ( /\ ret[h].op = "Read"
        /\ ret[h].site \in {"unmarshal", "ok"}
        /\ Unmarshal(ret[h].buffer).err # Nil )
      => ( /\ ret[h].n = 0
           /\ ret[h].err = Join(ErrUnmarshalCtx, ErrMalformed)
           /\ dest[h] = ret[h].destBefore )

\* C4 witness: a Read accumulated bytes, they did not unmarshal, and it
\* returned the unmarshal error.
C4_Witness ==
    \E h \in Handles :
      /\ ret[h].op = "Read"
      /\ ret[h].site = "unmarshal"
      /\ ret[h].buffer # Empty

\* C5: a Write of a value whose Marshal fails returns (0, "could not marshal
\* data to write" joined with the cause) and puts no byte on the wire.
C5_MarshalFailure ==
    \A h \in Handles :
      (ret[h].op = "Write" /\ Marshal(ret[h].arg).err # Nil)
        => ( /\ ret[h].n = 0
             /\ ret[h].err = Join(ErrMarshalCtx, ErrUnencodable)
             /\ ret[h].sent = Empty )

\* C5 witness: such a Write returned while the peer was open, and the peer
\* has nothing to read.
C5_Witness ==
    \E h \in Handles :
      /\ ret[h].op = "Write" /\ ret[h].arg = BadValue
      /\ conn[Peer(h)] = "open"
      /\ inbox[Peer(h)] = Empty

\* C6: ReadFrom on a TCP-typed wrapper whose handle is not a *net.TCPConn
\* returns (0, invalid-connection error), reads nothing, sends nothing and
\* leaves the destination unchanged.
C6_UnsupportedHandle ==
    \A h \in Handles :
      (ret[h].op = "ReadFrom" /\ Impl(h) # "TCPConn")
        => ( /\ ret[h].n = 0
             /\ ret[h].err = ErrInvalidConn
             /\ ret[h].reads = 0
             /\ ret[h].consumed = Empty
             /\ ret[h].sent = Empty
             /\ dest[h] = ret[h].destBefore )

\* C6 witness: ReadFrom returned on such a wrapper while bytes were waiting
\* on its handle.
C6_Witness ==
    \E h \in Others :
      /\ ret[h].op = "ReadFrom"
      /\ inbox[h] # Empty

\* C7: a Read or ReadFrom called with no options takes exactly the steps of
\* the same call with the explicit options {4096, 256}: the same return, the
\* same locals, the same destination and the same effect on the connection,
\* whatever the transport reports.
C7_DefaultOptions ==
    [][ \A h \in Readers :
          /\ \A dstNil \in BOOLEAN :
               ReadCall(h, dstNil, NoOpts)
                 <=> ReadCall(h, dstNil, <<ReadOptions(4096, 256)>>)
          /\ ReadFrom(h, NoOpts) <=> ReadFrom(h, <<ReadOptions(4096, 256)>>)
      ]_vars

\* C7 witness: a bulk transfer of the default buffer size has been made by
\* ReadFrom, and a Read is looping with the default chunk and buffer sizes.
C7_Witness ==
    \E h \in Handles, g \in Handles :
      /\ ret[h].op = "ReadFrom" /\ ret[h].n = 4096
      /\ rd[g].pc = "loop"
      /\ rd[g].chunkLen = 256 /\ rd[g].bufCap = 4096

\* C8: an Accept blocked on a closed listener can return; an Accept that
\* returned on a closed listener returned (nil, error); an Accept that
\* returned an error returned no connection; and an Accept that returned no
\* error returned a TCP-typed wrapper of kind tcp over the accepted handle.
C8_Accept ==
    /\ (acc = "blocked" /\ listener = "closed") => ENABLED AcceptReturn
    /\ accRet.op = "Accept" =>
         /\ accRet.closed => accRet.err # Nil
         /\ accRet.err # Nil => accRet.conn = "nil"
         /\ accRet.err = Nil =>
              /\ accRet.conn \in Servers
              /\ conn[accRet.conn] \in {"open", "closed"}
              /\ tc[accRet.conn].wrapped
              /\ tc[accRet.conn].tcpTyped
              /\ tc[accRet.conn].connectionType = ConnectionTypeTCP

\* C8 witness: Accept returned (nil, error) on a closed listener.
C8_Witness ==
    /\ accRet.op = "Accept"
    /\ accRet.closed
    /\ accRet.conn = "nil"
    /\ acc = "idle"

\* C9: a ReadFrom that returned an error left the destination as it was
\* before the call and returned the byte count its transfer reported.
C9_ReadFromError ==
    \A h \in Handles :
      (ret[h].op = "ReadFrom" /\ ret[h].err # Nil)
        => ( /\ dest[h] = ret[h].destBefore
             /\ ret[h].n = Size(ret[h].sent) )

\* C9 witness: a ReadFrom whose transfer moved bytes returned an unmarshal
\* error.
C9_Witness ==
    \E h \in Handles :
      /\ ret[h].op = "ReadFrom"
      /\ ret[h].site = "unmarshal"
      /\ ret[h].n > 0

\* C10: a Close of a typed connection closes its own handle and no other
\* handle, and leaves the listener and its queue alone; a handle closes only
\* by a Close of its own wrapper; closing the listener changes no handle, no
\* wrapper and no queued connection, and an Accept blocked on an open
\* listener with a queued connection can return whatever was closed.
C10_Ownership ==
    /\ [][ /\ \A h \in Handles :
                /\ Close(h) =>
                     /\ conn'[h] = "closed"
                     /\ \A g \in Handles \ {h} : conn'[g] = conn[g]
                     /\ listener' = listener /\ backlog' = backlog
                /\ (conn[h] # "closed" /\ conn'[h] = "closed") => Close(h)
           /\ listener' # listener =>
                /\ conn' = conn /\ tc' = tc /\ inbox' = inbox
                /\ backlog' = backlog
         ]_vars
    /\ []((acc = "blocked" /\ listener = "open" /\ backlog # <<>>)
            => ENABLED AcceptReturn)

\* C10 witness: the listener and the dialling end are closed, and the
\* connection the listener produced is open and has read bytes.
C10_Witness ==
    /\ listener = "closed"
    /\ \E h \in Servers :
         /\ tc[h].wrapped /\ conn[h] = "open"
         /\ rd[h].pc = "loop" /\ rd[h].buffer # Empty

\* an API call or a step of a pending Read on the typed connection over h
ActsOn(h) ==
    \/ \E dstNil \in BOOLEAN, opts \in OptsArgs : ReadCall(h, dstNil, opts)
    \/ ReadStep(h)
    \/ \E v \in Values : Write(h, v)
    \/ Close(h)
    \/ \E opts \in OptsArgs : ReadFrom(h, opts)

\* something of the typed connection over g differs after the step
Changed(g) ==
    \/ conn'[g] # conn[g]
    \/ inbox'[g] # inbox[g]
    \/ dest'[g] # dest[g]
    \/ rd'[g] # rd[g]
    \/ ret'[g] # ret[g]
    \/ tc'[g] # tc[g]

C12_ReadFromReceives ==
    \A h \in Handles :
      (ret[h].op = "ReadFrom" /\ ret[h].site \in {"receive", "unmarshal", "ok"})
        => ( /\ ret[h].sent = Empty
             /\ ret[h].buffer = ret[h].consumed
             /\ ret[h].err = Nil => dest[h] = Unmarshal(ret[h].consumed).val )

\* the messages of the error chain e
Messages(e) == {e[i] : i \in 1..Len(e)}

\* C13: when an underlying read of a Read failed with an error other than
\* end-of-stream, no message of that error is in what Read returned; the
\* call unmarshalled the bytes buffered before the failure, and when they
\* unmarshal it returned (number of bytes buffered, nil) and the
\* destination holds the decoded value.
C13_ReadErrorDiscarded ==
    \A h \in Handles :
      (ret[h].op = "Read" /\ ret[h].cause \notin {Nil, EOF})
        => ( /\ Messages(ret[h].cause) \cap Messages(ret[h].err) = {}
             /\ ret[h].site \in {"ok", "unmarshal"}
             /\ Unmarshal(ret[h].buffer).err = Nil
                  => ( /\ ret[h].n = Size(ret[h].buffer)
                       /\ ret[h].err = Nil
                       /\ dest[h] = Unmarshal(ret[h].buffer).val ) )

\* C13 witness: a Read buffered a whole record, its next underlying read
\* timed out, and it returned (2, nil) with the decoded value in the
\* destination.
C13_Witness ==
    \E h \in Handles :
      /\ ret[h].op = "Read"
      /\ ret[h].cause = ErrTransport
      /\ ret[h].err = Nil /\ ret[h].n = 2
      /\ dest[h] = Ones(1)

\* C14: every error a Write returned for a failed Marshal, and every error
\* a Read or ReadFrom returned for a failed Unmarshal, is a context message
\* joined with the error the payload's Marshal or Unmarshal returned.
C14_ConversionErrorWrapped ==
    \A h \in Handles :
      /\ (ret[h].op = "Write" /\ ret[h].site = "marshal")
           => \E ctx \in {ErrMarshalCtx} :
                ret[h].err = Join(ctx, Marshal(ret[h].arg).err)
      /\ (ret[h].op \in {"Read", "ReadFrom"} /\ ret[h].site = "unmarshal")
           => \E ctx \in {ErrUnmarshalCtx, ErrUnmarshalInto} :
                ret[h].err = Join(ctx, Unmarshal(ret[h].buffer).err)

\* C15: once a wrapper is built, no step (Read, Write, ReadFrom, Close, a
\* deadline setter, or any operation on another connection or on the
\* listener) changes what ConnectionType() returns, and a wrapper built by
\* DialTCP or Accept is of kind tcp; whatever the kind, a Write put on the
\* wire exactly the first n bytes of Marshal of its argument, and the
\* buffer of a Read is a prefix of the bytes it took from the connection.
C15_KindFixed ==
    /\ [][ \A h \in Handles :
             /\ tc[h].wrapped =>
                  /\ tc'[h].wrapped
                  /\ tc'[h].connectionType = ConnectionType(h)
             /\ (~tc[h].wrapped /\ tc'[h].wrapped /\ h \notin Others)
                  => tc'[h].connectionType = ConnectionTypeTCP
         ]_vars
    /\ [](\A h \in Handles :
            /\ (ret[h].op = "Write" /\ ret[h].site = "write")
                 => ret[h].sent = Take(Marshal(ret[h].arg).data, ret[h].n)
            /\ ret[h].op = "Read"
                 => ret[h].buffer = Take(ret[h].consumed, Size(ret[h].buffer)))

\* C15 witness: a wrapper of kind tcp and a wrapper of kind udp each wrote
\* the same value and put the same bytes on the wire, and the one of kind
\* tcp, since closed, still reports tcp.
C15_Witness ==
    \E h \in Handles, g \in Handles :
      /\ tc[h].wrapped /\ ConnectionType(h) = ConnectionTypeTCP
      /\ tc[g].wrapped /\ ConnectionType(g) = ConnectionTypeUDP
      /\ ret[h].op = "Write" /\ ret[g].op = "Write"
      /\ ret[h].arg = ret[g].arg
      /\ ret[h].sent = ret[g].sent /\ ret[h].sent # Empty
      /\ conn[h] = "closed"

\* C16: a Write whose Marshal succeeded made one underlying write of the
\* marshaled bytes: the bytes it put on the wire are the first n bytes of
\* Marshal(v), n is what it returned, n is the whole length when it
\* returned no error, and the error it returned is the underlying write's
\* error itself, not wrapped; the step of the Write appends exactly those
\* bytes, once, to the open peer's receive queue and touches no other
\* queue.
C16_WriteVerbatim ==
    /\ [](\A h \in Handles :
            (ret[h].op = "Write" /\ Marshal(ret[h].arg).err = Nil)
              => ( /\ ret[h].site = "write"
                   /\ ret[h].sent = Take(Marshal(ret[h].arg).data, ret[h].n)
                   /\ ret[h].n = Size(ret[h].sent)
                   /\ ret[h].err = Nil => ret[h].n = Size(Marshal(ret[h].arg).data)
                   /\ ret[h].err = ret[h].cause
                   /\ ret[h].err \in {Nil, ErrTransport, ErrClosed} ))
    /\ [][ \A h \in Handles :
             ( /\ calls' # calls
               /\ ret'[h].op = "Write" /\ ret'[h].site = "write"
               /\ Write(h, ret'[h].arg) )
             => inbox' = IF PeerClosed(h) THEN inbox
                         ELSE [inbox EXCEPT ![Peer(h)] = Cat(@, ret'[h].sent)]
         ]_vars

\* C16 witness: a Write of a two-byte record returned (1, timeout): a short
\* write, reported as the transport reported it, with the one byte waiting
\* at the peer.
C16_Witness ==
    \E h \in Handles :
      /\ ret[h].op = "Write"
      /\ ret[h].arg = Ones(1)
      /\ ret[h].n = 1 /\ ret[h].err = ErrTransport
      /\ inbox[Peer(h)] = Take(Marshal(Ones(1)).data, 1)

\* C17: a Read with a non-nil destination leaves its loop only in a step
\* whose underlying read returned an error; a Read that returned a nil
\* error had an underlying read fail with an error other than
\* end-of-stream; and a Read whose underlying read reported end-of-stream,
\* which happens only once the peer has closed, returned the end-of-stream
\* error.
C17_ReturnsOnlyOnError ==
    /\ [][ \A h \in Handles :
             (rd[h].pc = "loop" /\ rd'[h].pc # "loop")
               => (ret'[h].op = "Read" /\ ret'[h].cause # Nil)
         ]_vars
    /\ [](\A h \in Handles :
            (ret[h].op = "Read" /\ ~ret[h].dstNil)
              => ( /\ ret[h].cause # Nil
                   /\ ret[h].err = Nil => ret[h].cause \notin {Nil, EOF}
                   /\ ret[h].cause = EOF
                        => (ret[h].err = EOF /\ PeerClosed(h)) ))

\* C17 witness: a Read took bytes in several underlying reads while the
\* connection was open, and returned the end-of-stream error once the peer
\* had closed.
C17_Witness ==
    \E h \in Handles :
      /\ ret[h].op = "Read" /\ ~ret[h].dstNil
      /\ ret[h].reads >= 2 /\ ret[h].consumed # Empty
      /\ ret[h].err = EOF
      /\ conn[h] = "open" /\ PeerClosed(h)

\* C18: on a Read that returned a nil error, the buffer handed to Unmarshal
\* is, in order, every byte the underlying reads of the call took from the
\* connection, and the count returned is the number of those bytes.
C18_NoByteDropped ==
    \A h \in Handles :
      (ret[h].op = "Read" /\ ~ret[h].dstNil /\ ret[h].err = Nil)
        => ( /\ ret[h].buffer = ret[h].consumed
             /\ ret[h].n = Size(ret[h].consumed) )

\* C19: a Read that returned an error left the destination as it was
\* before the call; a Read whose underlying read reported end-of-stream
\* attempted no Unmarshal and returned that error; after it the bytes the
\* call had taken are off the connection, nothing waits on it, and a Read
\* started afterwards has obtained no byte.
C19_DestinationOnlyOnSuccess ==
    \A h \in Handles :
      /\ (ret[h].op = "Read" /\ ret[h].err # Nil)
           => dest[h] = ret[h].destBefore
      /\ (ret[h].op = "Read" /\ ret[h].cause = EOF)
           => ( /\ ret[h].site = "eof"
                /\ ret[h].err = EOF
                /\ dest[h] = ret[h].destBefore
                /\ inbox[h] = Empty
                /\ rd[h].consumed = Empty )

\* C19 witness: a Read accumulated a whole well-formed record, then
\* returned the end-of-stream error; the destination holds its earlier
\* value, not the record's, and nothing waits on the connection.
C19_Witness ==
    \E h \in Handles :
      /\ ret[h].op = "Read" /\ ret[h].err = EOF
      /\ ret[h].buffer # Empty
      /\ Unmarshal(ret[h].buffer).err = Nil
      /\ Unmarshal(ret[h].buffer).val # dest[h]
      /\ inbox[h] = Empty

====
